---- MODULE Spec2Model ----
(***************************************************************************)
(* Model of the meeting-notes summarizer.  The backend (Express server):  *)
(* the /api/summarize and /api/share handlers, generateSummary with its    *)
(* local fallback generateSimpleSummary, and sendEmail.  The frontend (the *)
(* React App component): its state fields, its event handlers and its two  *)
(* requests in flight.  The sender input is left at its initial value.     *)
(*                                                                         *)
(* Text is a sequence of one-character strings, so that split, trim and    *)
(* startsWith are computed character by character as the code does.        *)
(* A JavaScript value is a record [t |-> type, v |-> payload].             *)
(***************************************************************************)
EXTENDS Integers, Sequences, FiniteSets, TLC

VARIABLES
    GROQ_API_KEY,      \* process.env.GROQ_API_KEY, text (<<>> when not set)
    SENDGRID_API_KEY,  \* process.env.SENDGRID_API_KEY, text (<<>> when not set)
    pc,                \* where the request being served stands
    route,             \* "none", "summarize" or "share"
    req,               \* the request: file, body fields
    apiCalls,          \* axios.post calls issued to the completion API for this request
    groqResult,        \* how that call settled ("none" until it has)
    fallbackRuns,      \* runs of generateSimpleSummary for this request
    sendEmailEntered,  \* whether sendEmail was called for this request
    logged,            \* whether sendEmail took the console-log fallback
    timer,             \* the simulated delay: "none", "pending", "fired"
    sent,              \* the messages handed to sgMail.send, in order
    sendResults,       \* how each sgMail.send call settled: "ok" or "error"
    responses,         \* the responses written for this request, in order
    fbArgs,            \* arguments of a direct run of generateSimpleSummary
    fbResult,          \* its result
    ui,                \* the useState fields of the App component
    summarizeCalls,    \* the client's POST /api/summarize requests in flight
    shareCalls,        \* the client's POST /api/share requests in flight
    resetSinceSend     \* whether resetForm ran since the last Summarize request was sent

vars == <<GROQ_API_KEY, SENDGRID_API_KEY, pc, route, req, apiCalls, groqResult,
          fallbackRuns,
          sendEmailEntered, logged, timer, sent, sendResults, responses,
          fbArgs, fbResult, ui, summarizeCalls, shareCalls, resetSinceSend>>

serverVars == <<GROQ_API_KEY, SENDGRID_API_KEY, pc, route, req, apiCalls, groqResult,
          fallbackRuns,
                sendEmailEntered, logged, timer, sent, sendResults, responses>>

fbVars == <<fbArgs, fbResult>>

clientVars == <<ui, summarizeCalls, shareCalls, resetSinceSend>>

----------------------------------------------------------------------------
(* Bounds of the model *)

\* longest transcript of the summarizer runs, in pieces (fragment + terminator run)
MaxPieces == 6

\* longest recipient list of a Share request
MaxRecipients == 3

----------------------------------------------------------------------------
(* Text helpers *)

Rep(c, n) == [i \in 1..n |-> c]

Min(a, b) == IF a < b THEN a ELSE b

\* String.prototype.trim strips these from both ends
IsSpace(c) == c \in {" ", "\n", "\t", "\r"}

RECURSIVE TrimStart(_)
TrimStart(s) ==
    IF s = <<>> THEN <<>>
    ELSE IF IsSpace(Head(s)) THEN TrimStart(Tail(s)) ELSE s

RECURSIVE TrimEnd(_)
TrimEnd(s) ==
    IF s = <<>> THEN <<>>
    ELSE IF IsSpace(s[Len(s)]) THEN TrimEnd(SubSeq(s, 1, Len(s) - 1)) ELSE s

Trim(s) == TrimEnd(TrimStart(s))

StartsWith(s, p) == Len(s) >= Len(p) /\ SubSeq(s, 1, Len(p)) = p

RECURSIVE Join(_, _)
Join(parts, sep) ==
    IF parts = <<>> THEN <<>>
    ELSE IF Len(parts) = 1 THEN parts[1]
    ELSE parts[1] \o sep \o Join(Tail(parts), sep)

----------------------------------------------------------------------------
(* JavaScript values *)

Undefined == [t |-> "undefined", v |-> <<>>]
Str(s)    == [t |-> "string", v |-> s]
Arr(a)    == [t |-> "array", v |-> a]
JTrue     == [t |-> "boolean", v |-> <<"true">>]

\* ToBoolean: undefined and '' are falsy; a non-empty string and any array,
\* the empty one too, are truthy
Truthy(x) ==
    CASE x.t = "undefined" -> FALSE
      [] x.t = "string"    -> x.v # <<>>
      [] x.t = "array"     -> TRUE
      [] x.t = "boolean"   -> x.v = <<"true">>

IsArray(x) == x.t = "array"

\* template-literal interpolation of a string (or of undefined)
ToText(x) == IF x.t = "string" THEN x.v ELSE <<"u","n","d","e","f","i","n","e","d">>

----------------------------------------------------------------------------
(* generateSimpleSummary: the local fallback summarizer *)

\* slice(0, 5)
MaxKeyPoints == 5

\* s.trim().length > 10
MinFragmentLength == 10

\* the character class of the split pattern /[.!?]+/
IsTerminator(c) == c \in {".", "!", "?"}

\* transcript.split(/[.!?]+/): every maximal run of terminators separates two
\* fragments; a run at the start or the end leaves an empty fragment there
RECURSIVE SplitFrom(_, _, _, _)
SplitFrom(s, i, cur, acc) ==
    IF i > Len(s) THEN Append(acc, cur)
    ELSE IF IsTerminator(s[i])
         THEN IF i > 1 /\ IsTerminator(s[i - 1])
              THEN SplitFrom(s, i + 1, cur, acc)
              ELSE SplitFrom(s, i + 1, <<>>, Append(acc, cur))
         ELSE SplitFrom(s, i + 1, Append(cur, s[i]), acc)

Split(s) == SplitFrom(s, 1, <<>>, <<>>)

\* the filter predicate s => s.trim().length > 10
Qualifies_NoTrim(s) == Len(s) > MinFragmentLength

Qualifies(s) == Len(Trim(s)) > MinFragmentLength

\* the marker the template literal of the map callback starts with: the three
\* characters the source file holds, then a space
BulletMarker == <<"a-circumflex", "euro-sign", "cent-sign", " ">>

KeyPoint(s) == BulletMarker \o Trim(s)

SummaryHeader == <<"S", "u", "m", "m", "a", "r", "y", ":">>

CustomHeader ==
    <<"C", "u", "s", "t", "o", "m", " ",
      "I", "n", "s", "t", "r", "u", "c", "t", "i", "o", "n", "s", ":", " ">>

generateSimpleSummary_OneNewline(transcript, customPrompt) ==
    LET sentences == SelectSeq(Split(transcript), Qualifies)
        keyPoints == [i \in 1..Min(MaxKeyPoints, Len(sentences)) |-> KeyPoint(sentences[i])]
        summary   == SummaryHeader \o <<"\n">> \o Join(keyPoints, <<"\n">>)
    IN  IF Truthy(customPrompt)
        THEN CustomHeader \o ToText(customPrompt) \o <<"\n">> \o summary
        ELSE summary

generateSimpleSummary(transcript, customPrompt) ==
    LET sentences == SelectSeq(Split(transcript), Qualifies)
        keyPoints == [i \in 1..Min(MaxKeyPoints, Len(sentences)) |-> KeyPoint(sentences[i])]
        summary   == SummaryHeader \o <<"\n">> \o Join(keyPoints, <<"\n">>)
    IN  IF Truthy(customPrompt)
        THEN CustomHeader \o ToText(customPrompt) \o <<"\n", "\n">> \o summary
        ELSE summary

----------------------------------------------------------------------------
(* Requests and responses *)

\* a literal the code only passes along, kept as one token
Lit(text) == Str(<<text>>)

NoFile == [present |-> FALSE, mimetype |-> "", text |-> <<>>]

\* fileFilter of the multer configuration
AllowedMime(m) == m = "text/plain" \/ m = "text/markdown"

\* res.status(status).json(obj): JSON.stringify leaves out the keys whose value
\* is undefined
Json(status, success, summary, originalText, message, error) ==
    [status |-> status, type |-> "json",
     keys |-> {k \in {"success", "summary", "originalText", "message", "error"} :
                 CASE k = "success"      -> success # Undefined
                   [] k = "summary"      -> summary # Undefined
                   [] k = "originalText" -> originalText # Undefined
                   [] k = "message"      -> message # Undefined
                   [] k = "error"        -> error # Undefined},
     success |-> success, summary |-> summary, originalText |-> originalText,
     message |-> message, error |-> error]

JsonError(status, text) == Json(status, Undefined, Undefined, Undefined, Undefined, Lit(text))

\* No error-handling middleware is registered, so an error a middleware passes to
\* next(err) is answered by the framework's default handler: status 500 and an
\* HTML page, not a JSON object.
DefaultErrorPage ==
    [status |-> 500, type |-> "html", keys |-> {},
     success |-> Undefined, summary |-> Undefined, originalText |-> Undefined,
     message |-> Undefined, error |-> Undefined]

\* transcripts of the Summarize requests: empty, whitespace only, one short
\* fragment, one qualifying fragment
RequestTranscripts ==
    { <<>>, <<" ", "\n">>, <<"o", "k", ".">>,
      Rep("a", MinFragmentLength + 1) \o <<".", " ">> }

RequestFiles ==
    {NoFile} \cup
    [present : {TRUE}, mimetype : {"text/plain", "text/markdown", "image/png"},
     text : RequestTranscripts]

RequestPrompts == {Undefined, Str(<<>>), Str(<<"p">>)}

Addresses == {"a@x", "b@x"}

RecipientLists == UNION {[1..n -> Addresses] : n \in 0..MaxRecipients}

\* recipients of the Share requests: missing, a string, a list (empty or not)
RequestRecipients == {Undefined, Str(<<"a", "@", "x">>)} \cup {Arr(l) : l \in RecipientLists}

RequestSummaries == {Undefined, Str(<<>>), Str(<<" ">>), Str(<<"s">>)}

EmptyRequest ==
    [file |-> NoFile, transcript |-> Undefined, customPrompt |-> Undefined,
     summary |-> Undefined, recipients |-> Undefined, subject |-> Undefined,
     sender |-> Undefined]

\* how the completion API call can settle
GroqOutcomes == {"network_error", "non_2xx", "no_choices", "no_content", "ok"}

\* the text of the first choice of a well-formed completion
CompletionText == <<"A", "I">>

----------------------------------------------------------------------------
(* POST /api/summarize *)

Respond(r) == responses' = Append(responses, r)

\* the request enters the route; upload.single('transcript') runs first and hands
\* a file the filter refuses to next(err), so the handler is never called
ReceiveSummarize ==
    /\ pc = "idle"
    /\ \E f \in RequestFiles, t \in {Undefined} \cup {Str(x) : x \in RequestTranscripts},
          p \in RequestPrompts :
         /\ req' = [EmptyRequest EXCEPT !.file = f, !.transcript = t, !.customPrompt = p]
         /\ route' = "summarize"
         /\ IF f.present /\ ~AllowedMime(f.mimetype)
            THEN /\ Respond(DefaultErrorPage)
                 /\ pc' = "done"
            ELSE /\ pc' = "summarize"
                 /\ UNCHANGED responses
    /\ UNCHANGED <<GROQ_API_KEY, SENDGRID_API_KEY, apiCalls, groqResult, fallbackRuns,
                   sendEmailEntered, logged, timer, sent, sendResults, fbVars, clientVars>>

\* !transcriptText.trim()
IsBlank_NoTrim(text) == text = <<>>

IsBlank(text) == Trim(text) = <<>>

\* transcriptText of the handler; Undefined when neither a file nor a truthy
\* transcript field came
TranscriptText(r) ==
    IF r.file.present THEN Str(r.file.text)
    ELSE IF Truthy(r.transcript) THEN r.transcript
    ELSE Undefined

SummarizeSuccess(summary, transcriptText) ==
    Json(200, JTrue, summary, transcriptText, Undefined, Undefined)

\* the handler up to the await of generateSummary, and through to the response
\* when generateSummary returns without calling out
SummarizeHandler ==
    /\ pc = "summarize"
    /\ LET transcriptText == TranscriptText(req) IN
       IF transcriptText = Undefined
       THEN /\ Respond(JsonError(400, "No transcript provided"))
            /\ pc' = "done"
            /\ UNCHANGED <<apiCalls, fallbackRuns>>
       ELSE IF IsBlank(transcriptText.v)
       THEN /\ Respond(JsonError(400, "Transcript is empty"))
            /\ pc' = "done"
            /\ UNCHANGED <<apiCalls, fallbackRuns>>
       ELSE IF GROQ_API_KEY = <<>>
       THEN /\ fallbackRuns' = fallbackRuns + 1
            /\ Respond(SummarizeSuccess(
                   Str(generateSimpleSummary(transcriptText.v, req.customPrompt)),
                   transcriptText))
            /\ pc' = "done"
            /\ UNCHANGED apiCalls
       ELSE /\ apiCalls' = apiCalls + 1
            /\ pc' = "await_groq"
            /\ UNCHANGED <<fallbackRuns, responses>>
    /\ UNCHANGED <<GROQ_API_KEY, SENDGRID_API_KEY, route, req, groqResult,
                   sendEmailEntered, logged, timer, sent, sendResults, fbVars, clientVars>>

\* what generateSummary returns once axios.post has settled: a rejected call
\* (network failure, non-2xx) and a payload without choices[0].message raise and
\* are caught; a message without content is read as undefined and returned
GroqReturn(outcome, transcript, customPrompt) ==
    CASE outcome = "ok"         -> Str(CompletionText)
      [] outcome = "no_content" -> Undefined
      [] OTHER                  -> Str(generateSimpleSummary(transcript, customPrompt))

GroqSettles ==
    /\ pc = "await_groq"
    /\ \E outcome \in GroqOutcomes :
         /\ groqResult' = outcome
         /\ fallbackRuns' = IF outcome \in {"ok", "no_content"}
                            THEN fallbackRuns ELSE fallbackRuns + 1
         /\ Respond(SummarizeSuccess(
                GroqReturn(outcome, TranscriptText(req).v, req.customPrompt),
                TranscriptText(req)))
    /\ pc' = "done"
    /\ UNCHANGED <<GROQ_API_KEY, SENDGRID_API_KEY, route, req, apiCalls,
                   sendEmailEntered, logged, timer, sent, sendResults, fbVars, clientVars>>

----------------------------------------------------------------------------
(* POST /api/share and sendEmail *)

\* the default value of sendEmail's sender parameter
DefaultSender == Lit("amanbhagat.191@gmail.com")

\* the msg object built for one recipient
Message(recipient, subject, summary, sender) ==
    [to |-> recipient,
     from |-> IF sender = Undefined THEN DefaultSender ELSE sender,
     subject |-> subject,
     text |-> summary,
     html |-> <<"<div><h2>Meeting Summary</h2><div>">> \o ToText(summary)
              \o <<"</div></div>">>]

ShareSuccess == Json(200, JTrue, Undefined, Undefined, Lit("Summary shared successfully"), Undefined)

ShareFailure == JsonError(500, "Failed to send email")

\* the validation of the handler
InvalidShare_NoSummaryCheck(r) == ~Truthy(r.recipients) \/ ~IsArray(r.recipients)

InvalidShare(r) == ~Truthy(r.summary) \/ ~Truthy(r.recipients) \/ ~IsArray(r.recipients)

\* sendgridApiKey.startsWith('SG.')
WellFormedKey_Any(key) == TRUE

WellFormedKey(key) == StartsWith(key, <<"S", "G", ".">>)

\* !sendgridApiKey
NoSendgridKey_Never(key) == FALSE

NoSendgridKey(key) == key = <<>>

ReceiveShare ==
    /\ pc = "idle"
    /\ \E s \in RequestSummaries, r \in RequestRecipients,
          subj \in {Undefined, Lit("Meeting Summary Shared")},
          from \in {Undefined, Lit("me@x")} :
         req' = [EmptyRequest EXCEPT !.summary = s, !.recipients = r,
                                     !.subject = subj, !.sender = from]
    /\ route' = "share"
    /\ pc' = "share"
    /\ UNCHANGED <<GROQ_API_KEY, SENDGRID_API_KEY, apiCalls, groqResult, fallbackRuns,
                   sendEmailEntered, logged, timer, sent, sendResults, responses, fbVars, clientVars>>

\* sgMail.send(msg) for the recipient at position i of the loop
IssueSend_FirstRecipient(i) ==
    sent' = Append(sent, Message(req.recipients.v[1], req.subject, req.summary, req.sender))

IssueSend(i) ==
    sent' = Append(sent, Message(req.recipients.v[i], req.subject, req.summary, req.sender))

\* the handler up to the first await inside sendEmail, and through to the
\* response when sendEmail settles without awaiting
ShareHandler ==
    /\ pc = "share"
    /\ IF InvalidShare(req)
       THEN /\ Respond(JsonError(400, "Invalid request data"))
            /\ pc' = "done"
            /\ UNCHANGED <<sendEmailEntered, logged, timer, sent>>
       ELSE /\ sendEmailEntered' = TRUE
            /\ IF NoSendgridKey(SENDGRID_API_KEY)
               THEN /\ logged' = TRUE
                    /\ timer' = "pending"
                    /\ pc' = "await_delay"
                    /\ UNCHANGED <<sent, responses>>
               ELSE IF ~WellFormedKey(SENDGRID_API_KEY)
               THEN /\ Respond(ShareFailure)
                    /\ pc' = "done"
                    /\ UNCHANGED <<logged, timer, sent>>
               ELSE IF Len(req.recipients.v) = 0
               THEN /\ Respond(ShareSuccess)
                    /\ pc' = "done"
                    /\ UNCHANGED <<logged, timer, sent>>
               ELSE /\ IssueSend(1)
                    /\ pc' = "await_send"
                    /\ UNCHANGED <<logged, timer, responses>>
    /\ UNCHANGED <<GROQ_API_KEY, SENDGRID_API_KEY, route, req, apiCalls, groqResult,
                   fallbackRuns, sendResults, fbVars, clientVars>>

\* the setTimeout of the fallback fires: sendEmail returns true
DelayElapses ==
    /\ pc = "await_delay"
    /\ timer = "pending"
    /\ timer' = "fired"
    /\ Respond(ShareSuccess)
    /\ pc' = "done"
    /\ UNCHANGED <<GROQ_API_KEY, SENDGRID_API_KEY, route, req, apiCalls, groqResult,
                   fallbackRuns, sendEmailEntered, logged, sent, sendResults, fbVars, clientVars>>

\* a rejected send handled as if the loop caught it and went on
SendRejects_Continue ==
    /\ pc = "await_send"
    /\ sendResults' = Append(sendResults, "error")
    /\ IF Len(sent) < Len(req.recipients.v)
       THEN /\ IssueSend(Len(sent) + 1)
            /\ UNCHANGED <<pc, responses>>
       ELSE /\ Respond(ShareFailure)
            /\ pc' = "done"
            /\ UNCHANGED sent
    /\ UNCHANGED <<GROQ_API_KEY, SENDGRID_API_KEY, route, req, apiCalls, groqResult,
                   fallbackRuns, sendEmailEntered, logged, timer, fbVars, clientVars>>

\* the awaited sgMail.send resolves: next recipient, or return true
SendResolves ==
    /\ pc = "await_send"
    /\ sendResults' = Append(sendResults, "ok")
    /\ IF Len(sent) < Len(req.recipients.v)
       THEN /\ IssueSend(Len(sent) + 1)
            /\ UNCHANGED <<pc, responses>>
       ELSE /\ Respond(ShareSuccess)
            /\ pc' = "done"
            /\ UNCHANGED sent
    /\ UNCHANGED <<GROQ_API_KEY, SENDGRID_API_KEY, route, req, apiCalls, groqResult,
                   fallbackRuns, sendEmailEntered, logged, timer, fbVars, clientVars>>

\* the awaited sgMail.send rejects: sendEmail rethrows, the handler answers 500
SendRejects ==
    /\ pc = "await_send"
    /\ sendResults' = Append(sendResults, "error")
    /\ Respond(ShareFailure)
    /\ pc' = "done"
    /\ UNCHANGED <<GROQ_API_KEY, SENDGRID_API_KEY, route, req, apiCalls, groqResult,
                   fallbackRuns, sendEmailEntered, logged, timer, sent, fbVars, clientVars>>

----------------------------------------------------------------------------
(* The server: one request after another *)

EnvGroqKeys == {<<>>, <<"g", "s", "k">>}

EnvSendgridKeys == {<<>>, <<"S", "G", ".", "k">>, <<"k", "e", "y">>, <<"S", "G">>}

\* the literals the component starts from
NoText == <<>>

InitialUi ==
    [transcript |-> NoText, customPrompt |-> NoText,
     summary |-> Str(NoText), editableSummary |-> Str(NoText),
     isLoading |-> FALSE, error |-> NoText, success |-> NoText,
     showShare |-> FALSE, shareSubject |-> NoText,
     shareSender |-> <<"amanbhagat.191@gmail.com">>,
     shareRecipients |-> NoText, recipientTags |-> <<>>, isSharing |-> FALSE]

\* s without its i-th element
Without(s, i) == SubSeq(s, 1, i - 1) \o SubSeq(s, i + 1, Len(s))

\* the page just loaded
ClientIdle ==
    /\ ui = InitialUi
    /\ summarizeCalls = <<>>
    /\ shareCalls = <<>>
    /\ resetSinceSend = FALSE

Idle ==
    /\ pc = "idle"
    /\ route = "none"
    /\ req = EmptyRequest
    /\ apiCalls = 0
    /\ groqResult = "none"
    /\ fallbackRuns = 0
    /\ sendEmailEntered = FALSE
    /\ logged = FALSE
    /\ timer = "none"
    /\ sent = <<>>
    /\ sendResults = <<>>
    /\ responses = <<>>

FbIdle ==
    /\ fbArgs = [transcript |-> <<>>, customPrompt |-> Undefined]
    /\ fbResult = <<>>

Init ==
    /\ GROQ_API_KEY \in EnvGroqKeys
    /\ SENDGRID_API_KEY \in EnvSendgridKeys
    /\ Idle
    /\ FbIdle
    /\ ClientIdle

\* the response is out; the server takes the next request
NextRequest ==
    /\ pc = "done"
    /\ pc' = "idle"
    /\ route' = "none"
    /\ req' = EmptyRequest
    /\ apiCalls' = 0
    /\ groqResult' = "none"
    /\ fallbackRuns' = 0
    /\ sendEmailEntered' = FALSE
    /\ logged' = FALSE
    /\ timer' = "none"
    /\ sent' = <<>>
    /\ sendResults' = <<>>
    /\ responses' = <<>>
    /\ UNCHANGED <<GROQ_API_KEY, SENDGRID_API_KEY, fbVars, clientVars>>

Next ==
    \/ ReceiveSummarize
    \/ SummarizeHandler
    \/ GroqSettles
    \/ ReceiveShare
    \/ ShareHandler
    \/ DelayElapses
    \/ SendResolves
    \/ SendRejects
    \/ NextRequest

Spec == Init /\ [][Next]_vars

----------------------------------------------------------------------------
(* Direct runs of generateSimpleSummary on a range of transcripts *)

\* a fragment of exactly MinFragmentLength + 1 characters, ended by '.'
PieceLong == Rep("a", MinFragmentLength + 1) \o <<".">>

\* a fragment longer than MinFragmentLength only with its padding, ended by "?!"
PieceShort == <<" ">> \o Rep("b", MinFragmentLength) \o <<" ", "?", "!">>

\* a padded fragment of two lines, ended by '!'
PieceTwoLines ==
    <<" ">> \o Rep("c", 6) \o <<"\n">> \o Rep("d", 6) \o <<"\n", "!">>

Pieces == {PieceLong, PieceShort, PieceTwoLines}

RECURSIVE Concat(_)
Concat(ps) == IF ps = <<>> THEN <<>> ELSE Head(ps) \o Concat(Tail(ps))

Transcripts == {Concat(ps) : ps \in UNION {[1..n -> Pieces] : n \in 0..MaxPieces}}

Prompts == {Undefined, Str(<<>>), Str(<<"p">>), Str(<<" ">>)}

FbInit ==
    /\ GROQ_API_KEY = <<>>
    /\ SENDGRID_API_KEY = <<>>
    /\ Idle
    /\ ClientIdle
    /\ fbArgs \in [transcript : Transcripts, customPrompt : Prompts]
    /\ fbResult = <<>>

RunFallback ==
    /\ fbResult = <<>>
    /\ fbResult' = generateSimpleSummary(fbArgs.transcript, fbArgs.customPrompt)
    /\ UNCHANGED <<serverVars, fbArgs, clientVars>>

FbNext == RunFallback

SpecFallback == FbInit /\ [][FbNext]_vars

----------------------------------------------------------------------------
(* Vocabulary of the properties *)

InvalidRequestData == JsonError(400, "Invalid request data")

\* no delivery attempt of any kind: sendEmail not entered, no send call, no
\* log-and-delay
NoDeliveryAttempt ==
    /\ ~sendEmailEntered
    /\ sent = <<>>
    /\ sendResults = <<>>
    /\ ~logged
    /\ timer = "none"

\* recipients is an empty list, or is not a list
EmptyOrNonListRecipients(r) ==
    \/ r.recipients.t # "array"
    \/ r.recipients = Arr(<<>>)

\* summary is missing or empty
MissingSummary(r) == r.summary = Undefined \/ r.summary = Str(<<>>)

\* the inputs Share asks for: a non-empty summary and a non-empty list
ValidShareInputs(r) ==
    /\ r.summary.t = "string" /\ r.summary.v # <<>>
    /\ r.recipients.t = "array" /\ r.recipients.v # <<>>

\* the upload middleware let the request through to the handler
ReachedHandler(r) == ~(r.file.present /\ ~AllowedMime(r.file.mimetype))

\* the transcript the request carries: the file's text when a file came, else
\* the transcript field
CarriedTranscript(r) == IF r.file.present THEN Str(r.file.text) ELSE r.transcript

\* absent, empty or whitespace only
BlankTranscript(r) ==
    \/ CarriedTranscript(r) = Undefined
    \/ \A i \in 1..Len(CarriedTranscript(r).v) : IsSpace(CarriedTranscript(r).v[i])

\* the well-formed payloads of the two operations
WellFormedError(r) ==
    r.type = "json" /\ r.keys = {"error"} /\ r.error.t = "string" /\ r.status >= 400

WellFormedSummarizeSuccess(r) ==
    /\ r.type = "json" /\ r.status = 200
    /\ r.keys = {"success", "summary", "originalText"}
    /\ r.success = JTrue /\ r.summary.t = "string" /\ r.originalText.t = "string"

WellFormedShareSuccess(r) ==
    /\ r.type = "json" /\ r.status = 200
    /\ r.keys = {"success", "message"}
    /\ r.success = JTrue /\ r.message.t = "string"

----------------------------------------------------------------------------
(* Share: validation *)

\* C1: a Share request whose recipients field is an empty list, or is not a
\* list, is answered {error: "Invalid request data"} with status 400, and no
\* delivery attempt is made, whatever the delivery credential.
C1_EmptyOrNonListRecipientsRejected ==
    (route = "share" /\ EmptyOrNonListRecipients(req)) =>
        /\ NoDeliveryAttempt
        /\ pc = "done" => responses = <<InvalidRequestData>>

\* C10: a Share request whose summary is missing or empty is answered
\* {error: "Invalid request data"} with status 400, and no delivery attempt of
\* any kind is made, for every recipients value and credential.
C10_MissingSummaryRejected ==
    (route = "share" /\ MissingSummary(req)) =>
        /\ NoDeliveryAttempt
        /\ pc \in {"share", "done"}
        /\ pc = "done" => responses = <<InvalidRequestData>>

C10_Witness ==
    /\ route = "share" /\ pc = "done"
    /\ req.summary = Str(<<>>)
    /\ req.recipients.t = "array" /\ Len(req.recipients.v) = 2
    /\ WellFormedKey(SENDGRID_API_KEY)
    /\ responses = <<InvalidRequestData>>

----------------------------------------------------------------------------
(* Share: delivery *)

\* C2: with a well-formed credential, if the send for the recipient at position
\* i raises an error, then no send is issued for a later position, the sends
\* for positions 1..i were issued once each and in list order, and the response
\* is {error: "Failed to send email"} with status 500, never the success payload.
C2_AbortOnFirstSendError ==
    \A i \in 1..Len(sendResults) :
        sendResults[i] = "error" =>
            /\ WellFormedKey(SENDGRID_API_KEY)
            /\ Len(sent) = i
            /\ \A j \in 1..i : sent[j].to = req.recipients.v[j]
            /\ pc = "done"
            /\ responses = <<ShareFailure>>

C2_Witness ==
    /\ route = "share" /\ pc = "done"
    /\ Len(req.recipients.v) = 3
    /\ sendResults = <<"ok", "error">>
    /\ Len(sent) = 2
    /\ responses = <<ShareFailure>>

\* C5: with a credential configured that lacks the "SG." prefix, Share with
\* valid inputs issues no send, does not take the log-and-delay fallback, and
\* answers {error: "Failed to send email"} with status 500.
C5_MalformedKeyFails ==
    (/\ route = "share"
     /\ ValidShareInputs(req)
     /\ SENDGRID_API_KEY # <<>>
     /\ ~StartsWith(SENDGRID_API_KEY, <<"S", "G", ".">>)) =>
        /\ sent = <<>>
        /\ sendResults = <<>>
        /\ ~logged
        /\ timer = "none"
        /\ pc \in {"share", "done"}
        /\ pc = "done" => responses = <<ShareFailure>>

C5_Witness ==
    /\ route = "share" /\ pc = "done"
    /\ ValidShareInputs(req)
    /\ SENDGRID_API_KEY = <<"S", "G">>
    /\ sendEmailEntered
    /\ responses = <<ShareFailure>>

\* C6: with no delivery credential configured, Share with valid inputs issues
\* no send for any recipient list, and answers the success payload, and only
\* once the simulated delay has elapsed.
C6_NoKeyLogsAndSucceeds ==
    (/\ route = "share"
     /\ ValidShareInputs(req)
     /\ SENDGRID_API_KEY = <<>>) =>
        /\ sent = <<>>
        /\ sendResults = <<>>
        /\ responses # <<>> => (responses = <<ShareSuccess>> /\ timer = "fired")
        /\ pc = "done" => (responses = <<ShareSuccess>> /\ logged)

C6_Witness ==
    /\ route = "share" /\ pc = "done"
    /\ ValidShareInputs(req)
    /\ Len(req.recipients.v) = 3
    /\ SENDGRID_API_KEY = <<>>
    /\ timer = "fired"
    /\ responses = <<ShareSuccess>>

----------------------------------------------------------------------------
(* Summarize *)

\* the completion call failed: it was rejected, or its payload was malformed
GroqFailed == groqResult \in {"network_error", "non_2xx", "no_choices", "no_content"}

\* C3: every Summarize request whose transcript is non-empty after trimming is
\* answered with the success payload {success, summary, originalText}; with no
\* completion credential, or when the completion call fails in any way, the
\* summary is the output of the fallback summarizer on (transcript, customPrompt).
C3_SummarizeNeverFailsOutward ==
    (/\ route = "summarize" /\ pc = "done"
     /\ ReachedHandler(req)
     /\ ~BlankTranscript(req)) =>
        /\ Len(responses) = 1
        /\ WellFormedSummarizeSuccess(responses[1])
        /\ responses[1].originalText = CarriedTranscript(req)
        /\ (GROQ_API_KEY = <<>> \/ GroqFailed) =>
               responses[1].summary =
                   Str(generateSimpleSummary(CarriedTranscript(req).v, req.customPrompt))

C7_OneWellFormedResponse ==
    /\ Len(responses) <= 1
    /\ pc = "done" => Len(responses) = 1
    /\ \A i \in 1..Len(responses) :
          \/ WellFormedError(responses[i])
          \/ route = "summarize" /\ WellFormedSummarizeSuccess(responses[i])
          \/ route = "share" /\ WellFormedShareSuccess(responses[i])

----------------------------------------------------------------------------
(* The fallback summarizer *)

RECURSIVE Ascending(_)
Ascending(S) ==
    IF S = {} THEN <<>>
    ELSE LET m == CHOOSE x \in S : \A y \in S : x <= y
         IN  <<m>> \o Ascending(S \ {m})

\* the fragments of t: the maximal stretches without '.', '!' or '?', each
\* given by the positions of its first and last character
FragmentStarts(t) ==
    {i \in 1..Len(t) : ~IsTerminator(t[i]) /\ (i = 1 \/ IsTerminator(t[i - 1]))}

FragmentEnds(t) ==
    {j \in 1..Len(t) : ~IsTerminator(t[j]) /\ (j = Len(t) \/ IsTerminator(t[j + 1]))}

Lowest(S) == CHOOSE x \in S : \A y \in S : x <= y
Highest(S) == CHOOSE x \in S : \A y \in S : x >= y

FragmentEnd(t, i) == Lowest({j \in FragmentEnds(t) : j >= i})

\* the positions of the fragment starting at i that hold no whitespace
InkOf(t, i) == {x \in i..FragmentEnd(t, i) : ~IsSpace(t[x])}

\* trimmed length greater than 10
LongFragment(t, i) ==
    LET ink == InkOf(t, i)
    IN  ink # {} /\ Highest(ink) - Lowest(ink) + 1 > 10

TrimmedFragment(t, i) ==
    LET ink == InkOf(t, i)
    IN  SubSeq(t, Lowest(ink), Highest(ink))

\* the qualifying fragments of t, trimmed, in transcript order
QualifyingFragments(t) ==
    LET starts == Ascending({i \in FragmentStarts(t) : LongFragment(t, i)})
    IN  [n \in 1..Len(starts) |-> TrimmedFragment(t, starts[n])]

\* the bulleted entries the summary is to hold: one for each of the first
\* min(5, k) qualifying fragments
ExpectedEntries(t) ==
    LET q == QualifyingFragments(t)
    IN  [n \in 1..Min(5, Len(q)) |-> BulletMarker \o q[n]]

RECURSIVE LinesFrom(_, _, _)
LinesFrom(s, cur, acc) ==
    IF s = <<>> THEN Append(acc, cur)
    ELSE IF Head(s) = "\n" THEN LinesFrom(Tail(s), <<>>, Append(acc, cur))
    ELSE LinesFrom(Tail(s), Append(cur, Head(s)), acc)

\* the lines of a text
LinesOf(s) == LinesFrom(s, <<>>, <<>>)

\* the lines under the header line (none when only an empty line follows it)
LinesUnderHeader(s) ==
    IF Tail(LinesOf(s)) = << <<>> >> THEN <<>> ELSE Tail(LinesOf(s))

FallbackRan == fbResult # <<>>

\* C8 as stated: the summary is the header line "Summary:" followed by exactly
\* min(5, k) bulleted lines, the n-th being the bullet marker followed by the
\* n-th qualifying fragment, trimmed and unchanged.
C8_BulletedLines ==
    (FallbackRan /\ ~Truthy(fbArgs.customPrompt)) =>
        /\ Head(LinesOf(fbResult)) = SummaryHeader
        /\ LinesUnderHeader(fbResult) = ExpectedEntries(fbArgs.transcript)

\* C8: the summary is "Summary:", a newline, and exactly min(5, k) bulleted
\* entries joined by newlines, the n-th being the bullet marker followed by the
\* n-th qualifying fragment, trimmed and unchanged (an entry spans several lines
\* when its fragment holds a line break); where no entry holds a line break the
\* entries are the lines under the header; shorter fragments never appear.
C8_BulletedEntries ==
    (FallbackRan /\ ~Truthy(fbArgs.customPrompt)) =>
        LET entries == ExpectedEntries(fbArgs.transcript) IN
        /\ fbResult = SummaryHeader \o <<"\n">> \o Join(entries, <<"\n">>)
        /\ (\A n \in 1..Len(entries) : \A x \in 1..Len(entries[n]) : entries[n][x] # "\n") =>
               LinesUnderHeader(fbResult) = entries

C8_Witness ==
    /\ FallbackRan
    /\ fbArgs.customPrompt = Undefined
    /\ fbArgs.transcript =
           PieceShort \o PieceLong \o PieceTwoLines \o PieceLong \o PieceLong \o PieceLong
    /\ Len(QualifyingFragments(fbArgs.transcript)) = 5
    /\ Len(ExpectedEntries(fbArgs.transcript)) = 5

\* C9: for a non-empty customPrompt p the fallback output is
\* "Custom Instructions: " + p + two newlines, followed by the output for the
\* same transcript without customPrompt; for an absent or empty customPrompt it
\* starts with "Summary:".
C9_CustomInstructionsPrefix ==
    FallbackRan =>
        IF fbArgs.customPrompt.t = "string" /\ fbArgs.customPrompt.v # <<>>
        THEN fbResult = CustomHeader \o fbArgs.customPrompt.v \o <<"\n", "\n">>
                        \o generateSimpleSummary(fbArgs.transcript, Undefined)
        ELSE StartsWith(fbResult, SummaryHeader)

C9_Witness ==
    /\ FallbackRan
    /\ fbArgs.customPrompt = Str(<<"p">>)
    /\ fbArgs.transcript = PieceLong \o PieceShort
    /\ StartsWith(fbResult, CustomHeader \o <<"p", "\n", "\n">> \o SummaryHeader)

----------------------------------------------------------------------------
(* Share: the delivery loop *)

\* C13: with a well-formed credential and no delivery error, for a recipient
\* list of length N exactly N sends are issued, the i-th to the i-th recipient;
\* a send is issued only when the previous one has completed (never two
\* outstanding); every send carries the same sender, subject and body; and the
\* success response is written only after the N-th send has completed.
C13_SequentialDelivery ==
    (/\ route = "share"
     /\ Truthy(req.summary) /\ req.recipients.t = "array"
     /\ WellFormedKey(SENDGRID_API_KEY)
     /\ \A i \in 1..Len(sendResults) : sendResults[i] = "ok") =>
        LET N == Len(req.recipients.v) IN
        /\ Len(sent) <= N
        /\ Len(sent) - Len(sendResults) \in {0, 1}
        /\ \A i \in 1..Len(sent) :
              /\ sent[i].to = req.recipients.v[i]
              /\ sent[i].from = sent[1].from
              /\ sent[i].subject = sent[1].subject /\ sent[i].subject = req.subject
              /\ sent[i].text = sent[1].text /\ sent[i].text = req.summary
              /\ sent[i].html = sent[1].html
        /\ responses # <<>> =>
              /\ responses = <<ShareSuccess>>
              /\ Len(sent) = N /\ Len(sendResults) = N
        /\ pc = "done" => responses # <<>>

C13_Witness ==
    /\ route = "share" /\ pc = "done"
    /\ WellFormedKey(SENDGRID_API_KEY)
    /\ req.recipients = Arr(<<"a@x", "b@x", "a@x">>)
    /\ sendResults = <<"ok", "ok", "ok">>
    /\ Len(sent) = 3
    /\ responses = <<ShareSuccess>>

----------------------------------------------------------------------------
(* The client: the App component *)

MsgNeedTranscript == <<"Please enter or upload a transcript">>
MsgGenerated == <<"Summary generated successfully! You can now edit it if needed.">>
MsgGenerateFailed == <<"Failed to generate summary. Please try again.">>
MsgNeedShare == <<"Please enter a summary and at least one recipient">>
MsgShared == <<"Summary shared successfully!">>
MsgShareFailed == <<"Failed to share summary. Please try again.">>
DefaultSubject == <<"Meeting Summary Shared">>

\* what the user types into the transcript, summary, subject and recipient fields
TypedTranscripts == {NoText, <<" ">>, <<"t">>}
TypedSummaries == {NoText, <<" ">>, <<"e", "d">>}
TypedSubjects == {NoText, <<"S">>}
TypedPrompts == {NoText, <<"p">>}
TypedRecipients == {NoText, <<" ">>, <<" ", "a", " ">>, <<"b">>}

\* the request got no response (network error)
NoReply ==
    [status |-> 0, type |-> "none", keys |-> {},
     success |-> Undefined, summary |-> Undefined, originalText |-> Undefined,
     message |-> Undefined, error |-> Undefined]

\* what the server can answer to the client's Summarize request: success with
\* the summary, success without the summary key, an error payload, nothing
SummarizeReplies(call) ==
    { SummarizeSuccess(Str(CompletionText), Str(call.transcript)),
      SummarizeSuccess(Undefined, Str(call.transcript)),
      JsonError(500, "Failed to generate summary"),
      NoReply }

ShareReplies == {ShareSuccess, ShareFailure, NoReply}

\* axios resolves on a 2xx status and rejects otherwise
Resolves(reply) == reply.status >= 200 /\ reply.status < 300

\* error.response?.data?.error || fallback
ErrorMessage(reply, fallback) ==
    IF reply.type = "json" /\ Truthy(reply.error) THEN reply.error.v ELSE fallback

\* Array.prototype.includes
Includes(list, x) == \E i \in 1..Len(list) : list[i] = x

ClientFrame == UNCHANGED <<serverVars, fbVars>>

\* onChange of the transcript textarea
setTranscript ==
    /\ \E t \in TypedTranscripts : ui' = [ui EXCEPT !.transcript = t]
    /\ UNCHANGED <<summarizeCalls, shareCalls, resetSinceSend>>
    /\ ClientFrame

\* reader.onload of handleFileUpload
FileLoaded ==
    /\ \E t \in TypedTranscripts : ui' = [ui EXCEPT !.transcript = t, !.error = NoText]
    /\ UNCHANGED <<summarizeCalls, shareCalls, resetSinceSend>>
    /\ ClientFrame

\* onChange of the custom instructions textarea
setCustomPrompt ==
    /\ \E t \in TypedPrompts : ui' = [ui EXCEPT !.customPrompt = t]
    /\ UNCHANGED <<summarizeCalls, shareCalls, resetSinceSend>>
    /\ ClientFrame

\* the Generate Summary button is not disabled
GenerateEnabled_Always == TRUE

GenerateEnabled == ~ui.isLoading /\ Trim(ui.transcript) # NoText

\* click on Generate Summary: handleGenerateSummary up to its await
handleGenerateSummary ==
    /\ GenerateEnabled
    /\ IF Trim(ui.transcript) = NoText
       THEN /\ ui' = [ui EXCEPT !.error = MsgNeedTranscript]
            /\ UNCHANGED <<summarizeCalls, resetSinceSend>>
       ELSE /\ ui' = [ui EXCEPT !.isLoading = TRUE, !.error = NoText, !.success = NoText]
            /\ summarizeCalls' = Append(summarizeCalls,
                                         [transcript |-> ui.transcript,
                                          customPrompt |-> ui.customPrompt])
            /\ resetSinceSend' = FALSE
    /\ UNCHANGED shareCalls
    /\ ClientFrame

\* what handleGenerateSummary sets once its request has settled
AfterSummarize(state, reply) ==
    IF Resolves(reply)
    THEN IF Truthy(reply.success)
         THEN [state EXCEPT !.summary = reply.summary,
                            !.editableSummary = reply.summary,
                            !.success = MsgGenerated,
                            !.isLoading = FALSE]
         ELSE [state EXCEPT !.isLoading = FALSE]
    ELSE [state EXCEPT !.error = ErrorMessage(reply, MsgGenerateFailed),
                       !.isLoading = FALSE]

\* a Summarize request in flight settles: the rest of handleGenerateSummary
SummarizeSettles ==
    /\ \E i \in 1..Len(summarizeCalls) :
         /\ \E reply \in SummarizeReplies(summarizeCalls[i]) :
              ui' = AfterSummarize(ui, reply)
         /\ summarizeCalls' = Without(summarizeCalls, i)
    /\ UNCHANGED <<shareCalls, resetSinceSend>>
    /\ ClientFrame

\* the summary section is rendered: {summary && (...)}
SummaryShown == Truthy(ui.summary)

\* onChange of the summary textarea
setEditableSummary ==
    /\ SummaryShown
    /\ \E t \in TypedSummaries : ui' = [ui EXCEPT !.editableSummary = Str(t)]
    /\ UNCHANGED <<summarizeCalls, shareCalls, resetSinceSend>>
    /\ ClientFrame

\* click on Share Summary / Hide Share Options
toggleShare ==
    /\ SummaryShown
    /\ ui' = [ui EXCEPT !.showShare = ~ui.showShare]
    /\ UNCHANGED <<summarizeCalls, shareCalls, resetSinceSend>>
    /\ ClientFrame

\* click on Start Over
resetForm ==
    /\ SummaryShown
    /\ ui' = [ui EXCEPT !.transcript = NoText, !.customPrompt = NoText,
                        !.summary = Str(NoText), !.editableSummary = Str(NoText),
                        !.error = NoText, !.success = NoText, !.showShare = FALSE,
                        !.shareSubject = NoText, !.shareRecipients = NoText,
                        !.recipientTags = <<>>]
    /\ resetSinceSend' = TRUE
    /\ UNCHANGED <<summarizeCalls, shareCalls>>
    /\ ClientFrame

\* onChange of the subject input
setShareSubject ==
    /\ ui.showShare
    /\ \E t \in TypedSubjects : ui' = [ui EXCEPT !.shareSubject = t]
    /\ UNCHANGED <<summarizeCalls, shareCalls, resetSinceSend>>
    /\ ClientFrame

\* onChange of the recipient input
setShareRecipients ==
    /\ ui.showShare
    /\ \E t \in TypedRecipients : ui' = [ui EXCEPT !.shareRecipients = t]
    /\ UNCHANGED <<summarizeCalls, shareCalls, resetSinceSend>>
    /\ ClientFrame

\* the list addRecipient leaves
AddedTo_NoDedup(tags, input) ==
    IF Trim(input) # NoText THEN Append(tags, Trim(input)) ELSE tags

AddedTo(tags, input) ==
    IF Trim(input) # NoText /\ ~Includes(tags, Trim(input))
    THEN Append(tags, Trim(input))
    ELSE tags

\* click on Add Recipient, or Enter in the recipient input
addRecipient ==
    /\ ui.showShare
    /\ ui' = IF AddedTo(ui.recipientTags, ui.shareRecipients) # ui.recipientTags
             THEN [ui EXCEPT !.recipientTags = AddedTo(ui.recipientTags, ui.shareRecipients),
                             !.shareRecipients = NoText]
             ELSE ui
    /\ UNCHANGED <<summarizeCalls, shareCalls, resetSinceSend>>
    /\ ClientFrame

\* click on the remove mark of a recipient tag
removeRecipient ==
    /\ ui.showShare
    /\ \E i \in 1..Len(ui.recipientTags) :
         ui' = [ui EXCEPT !.recipientTags =
                   SelectSeq(ui.recipientTags, LAMBDA r : r # ui.recipientTags[i])]
    /\ UNCHANGED <<summarizeCalls, shareCalls, resetSinceSend>>
    /\ ClientFrame

\* the Share Summary button of the share section is rendered and not disabled
ShareEnabled == ui.showShare /\ ~ui.isSharing /\ Len(ui.recipientTags) # 0

\* the guard of handleShare: !editableSummary.trim() || recipientTags.length === 0
ShareRefused(state) ==
    Trim(state.editableSummary.v) = NoText \/ Len(state.recipientTags) = 0

\* how handleShare ends in a state: with a TypeError, with the error message,
\* or with the request sent
ShareOutcome(state) ==
    IF state.editableSummary.t # "string" THEN "TypeError"
    ELSE IF ShareRefused(state) THEN "refused"
    ELSE "sent"

\* the body of the Share request
SharePayload_Original(state) ==
    [summary |-> state.summary,
     recipients |-> state.recipientTags,
     subject |-> IF state.shareSubject # NoText THEN state.shareSubject ELSE DefaultSubject,
     sender |-> state.shareSender]

SharePayload(state) ==
    [summary |-> state.editableSummary,
     recipients |-> state.recipientTags,
     subject |-> IF state.shareSubject # NoText THEN state.shareSubject ELSE DefaultSubject,
     sender |-> state.shareSender]

\* click on Share Summary in the share section: handleShare up to its await.
\* editableSummary.trim() raises a TypeError when editableSummary is undefined;
\* the handler then ends there and no state is set
handleShare ==
    /\ ShareEnabled
    /\ CASE ShareOutcome(ui) = "TypeError" -> UNCHANGED <<ui, shareCalls>>
         [] ShareOutcome(ui) = "refused" ->
              /\ ui' = [ui EXCEPT !.error = MsgNeedShare]
              /\ UNCHANGED shareCalls
         [] ShareOutcome(ui) = "sent" ->
              /\ ui' = [ui EXCEPT !.isSharing = TRUE, !.error = NoText, !.success = NoText]
              /\ shareCalls' = Append(shareCalls, SharePayload(ui))
    /\ UNCHANGED <<summarizeCalls, resetSinceSend>>
    /\ ClientFrame

\* what handleShare sets once its request has settled
AfterShare_ClearsOnFailure(state, reply) ==
    [state EXCEPT !.showShare = FALSE, !.shareSubject = NoText,
                  !.shareRecipients = NoText, !.recipientTags = <<>>,
                  !.isSharing = FALSE,
                  !.success = IF Resolves(reply) THEN MsgShared ELSE state.success,
                  !.error = IF Resolves(reply) THEN state.error
                            ELSE ErrorMessage(reply, MsgShareFailed)]

AfterShare(state, reply) ==
    IF Resolves(reply)
    THEN IF Truthy(reply.success)
         THEN [state EXCEPT !.success = MsgShared, !.showShare = FALSE,
                            !.shareSubject = NoText, !.shareRecipients = NoText,
                            !.recipientTags = <<>>, !.isSharing = FALSE]
         ELSE [state EXCEPT !.isSharing = FALSE]
    ELSE [state EXCEPT !.error = ErrorMessage(reply, MsgShareFailed),
                       !.isSharing = FALSE]

\* a Share request in flight settles: the rest of handleShare
ShareSettles ==
    /\ \E i \in 1..Len(shareCalls) :
         /\ \E reply \in ShareReplies : ui' = AfterShare(ui, reply)
         /\ shareCalls' = Without(shareCalls, i)
    /\ UNCHANGED <<summarizeCalls, resetSinceSend>>
    /\ ClientFrame

ClientInit ==
    /\ GROQ_API_KEY = <<>>
    /\ SENDGRID_API_KEY = <<>>
    /\ Idle
    /\ FbIdle
    /\ ClientIdle

ClientNext ==
    \/ setTranscript
    \/ FileLoaded
    \/ setCustomPrompt
    \/ handleGenerateSummary
    \/ SummarizeSettles
    \/ setEditableSummary
    \/ toggleShare
    \/ resetForm
    \/ setShareSubject
    \/ setShareRecipients
    \/ addRecipient
    \/ removeRecipient
    \/ handleShare
    \/ ShareSettles

SpecClient == ClientInit /\ [][ClientNext]_vars

----------------------------------------------------------------------------
(* Client: the recipient list *)

\* position of x in a list without duplicates
PositionIn(list, x) == CHOOSE i \in 1..Len(list) : list[i] = x

\* no duplicate address, no empty and no untrimmed entry
CleanRecipientList(list) ==
    /\ \A i \in 1..Len(list) : list[i] # NoText /\ Trim(list[i]) = list[i]
    /\ \A i, j \in 1..Len(list) : i # j => list[i] # list[j]

\* from one list to the next, the addresses that stay keep their relative order
\* and an address that comes in is put last
KeepsInsertionOrder(old, new) ==
    /\ \A i, j \in 1..Len(new) :
          (i < j /\ Includes(old, new[i]) /\ Includes(old, new[j])) =>
              PositionIn(old, new[i]) < PositionIn(old, new[j])
    /\ \A i \in 1..Len(new) :
          ~Includes(old, new[i]) =>
              /\ i = Len(new)
              /\ \A k \in 1..Len(old) : Includes(new, old[k])

\* C11: after any sequence of addRecipient, removeRecipient, resetForm and
\* Share actions the recipient list holds no duplicate address and no empty or
\* untrimmed entry, the addresses in it stand in their insertion order, and
\* adding an address already in the list leaves the list unchanged.
C11_RecipientListClean ==
    [][/\ CleanRecipientList(ui.recipientTags)
       /\ ui'.recipientTags # ui.recipientTags =>
              /\ CleanRecipientList(ui'.recipientTags)
              /\ KeepsInsertionOrder(ui.recipientTags, ui'.recipientTags)
              /\ Includes(ui.recipientTags, Trim(ui.shareRecipients)) => ~addRecipient]_vars

C11_Witness ==
    /\ ui.recipientTags = << <<"b">>, <<"a">> >>
    /\ ui.shareRecipients = <<" ", "a", " ">>
    /\ ui.showShare

----------------------------------------------------------------------------
(* Client: Share *)

\* editableSummary.trim() is non-empty
SummaryToShare(state) ==
    state.editableSummary.t = "string" /\ Trim(state.editableSummary.v) # NoText

\* C12: the client never issues a Share request with an empty recipient list or
\* with a summary that is empty after trimming; wherever handleShare can be
\* invoked it sends the request only if recipientTags has an element and
\* editableSummary.trim() is non-empty, and otherwise sets an error and sends
\* nothing.
C12_ShareOnlyWhenComplete ==
    /\ \A i \in 1..Len(shareCalls) :
          /\ Len(shareCalls[i].recipients) > 0
          /\ shareCalls[i].summary.t = "string"
          /\ Trim(shareCalls[i].summary.v) # NoText
    /\ ShareEnabled =>
          ShareOutcome(ui) =
              IF Len(ui.recipientTags) > 0 /\ SummaryToShare(ui) THEN "sent" ELSE "refused"

\* C14: changing editableSummary sends no request, and every Share request the
\* client sends carries the value of editableSummary and the recipient list of
\* the moment handleShare was invoked.
C14_ShareCarriesEditedSummary ==
    [][/\ ui'.editableSummary # ui.editableSummary =>
             /\ Len(shareCalls') <= Len(shareCalls)
             /\ Len(summarizeCalls') <= Len(summarizeCalls)
       /\ Len(shareCalls') > Len(shareCalls) =>
             /\ Len(shareCalls') = Len(shareCalls) + 1
             /\ shareCalls'[Len(shareCalls')].summary = ui.editableSummary
             /\ shareCalls'[Len(shareCalls')].recipients = ui.recipientTags]_vars

C14_Witness ==
    /\ Len(shareCalls) = 1
    /\ shareCalls[1].summary = Str(<<"e", "d">>)
    /\ ui.summary = Str(CompletionText)
    /\ shareCalls[1].recipients = << <<"b">>, <<"a">> >>

\* C17: a Share request that fails (error response or no response) leaves
\* recipientTags, shareSubject, editableSummary and showShare as they are and
\* sets an error message; a Share answered with success, and only that, clears
\* the recipient list and the subject and hides the share section; isSharing is
\* false afterwards in both cases.
C17_FailedShareKeepsForm ==
    [][\A reply \in ShareReplies :
          (Len(shareCalls') < Len(shareCalls) /\ ui' = AfterShare(ui, reply)) =>
              /\ ~ui'.isSharing
              /\ IF reply = ShareSuccess
                 THEN /\ ui'.recipientTags = <<>>
                      /\ ui'.shareSubject = NoText
                      /\ ~ui'.showShare
                 ELSE /\ ui'.recipientTags = ui.recipientTags
                      /\ ui'.shareSubject = ui.shareSubject
                      /\ ui'.editableSummary = ui.editableSummary
                      /\ ui'.showShare = ui.showShare
                      /\ ui'.error # NoText]_vars

\* a failed Share left the form ready for the same Share again
C17_Witness ==
    /\ shareCalls = <<>>
    /\ ui.error = <<"Failed to send email">>
    /\ ui.showShare /\ ~ui.isSharing
    /\ ui.recipientTags = << <<"a">>, <<"b">> >>
    /\ ui.shareSubject = <<"S">>
    /\ ShareOutcome(ui) = "sent"

----------------------------------------------------------------------------
(* Client: Summarize *)

\* C15: at most one Summarize request is in flight at any time, and isLoading
\* is true exactly while one is in flight, under every interleaving with the
\* other actions of the page.
C15_OneSummarizeInFlight ==
    /\ Len(summarizeCalls) <= 1
    /\ ui.isLoading <=> Len(summarizeCalls) = 1

\* a request in flight across a Start Over, with the transcript typed again
C15_Witness ==
    /\ Len(summarizeCalls) = 1
    /\ ui.isLoading
    /\ resetSinceSend
    /\ ui.transcript = <<"t">>
    /\ ~GenerateEnabled

\* C16: whenever summary is non-empty it is the response to a Summarize request
\* sent after the most recent Start Over: a request sent before resetForm and
\* settled after it does not set summary.
C16_SummaryOnlyFromFreshRequest ==
    [][(ui'.summary # ui.summary /\ Truthy(ui'.summary)) => ~resetSinceSend]_vars

====
